---- MODULE Spec2Model ----
(***************************************************************************)
(* A model of the chat application: the session store kept in Streamlit's  *)
(* session state (app.py), the model gateway and the persistence adapter   *)
(* (utils.py).                                                             *)
(*                                                                         *)
(* A chat is a Python dict held by reference: the store is a list of       *)
(* references, current_chat is one more reference.  The model keeps a heap *)
(* from object identities (positive numbers) to the dicts' fields.         *)
(* Text is a sequence of one-character strings, so that JSON escaping and  *)
(* parsing are computed and not assumed.                                   *)
(*                                                                         *)
(* One step of Spec is one run of the script (one call of main), started   *)
(* by at most one widget event, as Streamlit reruns the script once per    *)
(* interaction.  Two buttons given the same key in one run make Streamlit  *)
(* raise DuplicateWidgetID, which ends the run where it happens.           *)
(*                                                                         *)
(* A widget event that arrives while a run is under way is a rerun        *)
(* request: the next st.* call of the run raises Streamlit's               *)
(* RerunException, a BaseException no except clause of the program         *)
(* catches; the run ends there, and the event starts the next run.  A      *)
(* stop point names the st.* call at which a run ends that way.  The       *)
(* button press or the prompt of a run that is stopped before it reaches   *)
(* their widget is lost; the option of the radio widget is kept by the     *)
(* widget.  What a stopped run has not rendered anew stays on the page     *)
(* as the run before left it.                                              *)
(***************************************************************************)
EXTENDS Integers, Sequences, FiniteSets, TLC

VARIABLES
    chats,          \* st.session_state.chats: the list of chat references
    heap,           \* the chat dicts that are alive: reference -> fields
    current_chat,   \* st.session_state.current_chat: a reference, or NoneRef
    model_type,     \* st.session_state.model_type
    radio,          \* the option the st.radio widget holds
    file,           \* chat_history.json: [exists, data]
    rendered,       \* the widgets on the page after the last run
    issued,         \* history: every id a chat was ever created with
    calls,          \* the argument of each client.invoke of the last operation
    ret,            \* what the last call of a utils function returned: in a
                    \* run of the page, the call of generate_response
    ev              \* the last operation: its event, inputs and outcome

vars == <<chats, heap, current_chat, model_type, radio, file, rendered, issued, calls, ret, ev>>

(***************************** bounds **************************************)
MaxChats == 3       \* "New Chat" is not pressed with this many chats in the store
MaxTurns == 1       \* prompts sent, counted over the chats that are alive
MaxLen == 2         \* length of a message list handed to utils directly

(***************************** values **************************************)
NoneRef == 0

Range(s) == {s[i] : i \in 1..Len(s)}

Roles == {"system", "user", "assistant"}

\* A role the translation of generate_response has no branch for.
OtherRole == "tool"

Message(role, content) == [content |-> content, role |-> role]

\* Prompts typed into st.chat_input: non-empty text.
Prompts == {<<"h", "i">>}

\* response.content of a successful client.invoke
Reply == <<"o", "k">>

\* str(e) of the exception a failed client.invoke raises
ErrDesc == <<"e", "r", "r">>

\* "An error occurred: "
ErrPrefix == <<"A", "n", " ", "e", "r", "r", "o", "r", " ", "o", "c", "c", "u", "r", "r", "e", "d", ":", " ">>

ChatName(n) == <<"Chat ", n>>

Widget(kind, id) == [kind |-> kind, id |-> id]

NoWidget == Widget("none", 0)

\* Stop points: the st.* call at which a pending rerun request ends a run.
\*   radio   st.set_page_config, st.title, st.radio              (app.py 12-56)
\*   new     st.selectbox, st.button("New Chat")                 (62-70)
\*   chat i  st.write, st.columns, the select button of the i-th chat of the
\*           sidebar loop                                        (74-78)
\*   delete i  the delete button of that chat                    (81)
\*   slider  st.slider                                           (84)
\*   error   the st.error of a failed initialize_model           (utils.py 34-63, app.py 89)
\*   header  st.header, the messages shown, st.chat_input        (97-105)
\*   user    st.chat_message, st.markdown, st.spinner of a turn  (113-118)
\*   failed  the st.error of generate_response                   (utils.py 92)
\*   reply   st.markdown(response)                               (134)
\*   info    st.warning of count_tokens, st.sidebar.info, the save button
\*                                                               (utils.py 106, app.py 150-153)
\*   saved   the st.success or st.error of save_chat_history     (utils.py 114, 116)
StopAt(point, i) == <<point, i>>

NoStop == StopAt("none", 0)

\* the stop points of a run whose sidebar loop is over n chats
Stops(n) ==
    {StopAt(point, 0) : point \in {"none", "radio", "new", "slider", "error", "header", "info"}}
    \cup {StopAt(point, i) : point \in {"chat", "delete"}, i \in 1..n}

\* the stop points of a turn: before generate_response is called, in its
\* except clause, and after it returned
TurnStops == {StopAt("user", 0), StopAt("failed", 0), StopAt("reply", 0)}

\* the stop point of a press of "Save Chat History"
SaveStops == {StopAt("saved", 0)}

NoFile == [exists |-> FALSE, data |-> <<>>]

\* ret when no utils function was called, or the call returned None or was
\* left by an exception
NoReturn == [value |-> <<>>]

(************************* session store ***********************************)
\* a dict Python allocates is an object no live reference points to
NewRef(h) == CHOOSE o \in 1..(Cardinality(DOMAIN h) + 1) : o \notin DOMAIN h

create_new_chat(s) ==
    LET n == Len(s.chats) + 1
        o == NewRef(s.heap)
        new_chat == [id |-> n, name |-> ChatName(n), messages |-> <<>>]
    IN  [chats |-> Append(s.chats, o),
         heap |-> (o :> new_chat) @@ s.heap,
         current_chat |-> o]

\* delete_chat with the selection left alone while chats remain
delete_chat_keeps_selection(s, chat_to_delete) ==
    LET kept == SelectSeq(s.chats, LAMBDA c : s.heap[c].id # s.heap[chat_to_delete].id)
        s1 == [s EXCEPT !.chats = kept]
    IN  IF kept # <<>> THEN s1 ELSE create_new_chat(s1)

\* delete_chat without the new chat for an emptied store
delete_chat_leaves_empty(s, chat_to_delete) ==
    LET kept == SelectSeq(s.chats, LAMBDA c : s.heap[c].id # s.heap[chat_to_delete].id)
        s1 == [s EXCEPT !.chats = kept]
    IN  IF kept # <<>> THEN [s1 EXCEPT !.current_chat = kept[Len(kept)]] ELSE s1

\* delete_chat selecting chats[0] where the code selects chats[-1]
delete_chat_selects_first(s, chat_to_delete) ==
    LET kept == SelectSeq(s.chats, LAMBDA c : s.heap[c].id # s.heap[chat_to_delete].id)
        s1 == [s EXCEPT !.chats = kept]
    IN  IF kept # <<>> THEN [s1 EXCEPT !.current_chat = kept[1]] ELSE create_new_chat(s1)

delete_chat(s, chat_to_delete) ==
    LET kept == SelectSeq(s.chats, LAMBDA c : s.heap[c].id # s.heap[chat_to_delete].id)
        s1 == [s EXCEPT !.chats = kept]
    IN  IF kept # <<>>
        THEN [s1 EXCEPT !.current_chat = kept[Len(kept)]]
        ELSE create_new_chat(s1)

\* The sidebar loop of main over the list L it started on: each chat gets a
\* select button (key chat_<id>) and a delete button (key delete_<id>); w is
\* the widget whose event started this run, keys the widgets rendered so far.
\* A second chat with an id already used as a key in this run raises
\* DuplicateWidgetID.
RECURSIVE sidebar_loop(_, _, _, _, _, _, _)
sidebar_loop(s, L, i, seen, keys, w, stop) ==
    IF i > Len(L)
    THEN [s |-> s, keys |-> keys, aborted |-> FALSE, stopped |-> FALSE]
    ELSE LET chat == L[i]
             id == s.heap[chat].id
         IN  IF stop = StopAt("chat", i)
             THEN [s |-> s, keys |-> keys, aborted |-> FALSE, stopped |-> TRUE]
             ELSE IF id \in seen
                  THEN [s |-> s, keys |-> keys, aborted |-> TRUE, stopped |-> FALSE]
                  ELSE LET s1 == IF w = Widget("chat", id)
                                 THEN [s EXCEPT !.current_chat = chat]
                                 ELSE s
                           s2 == IF w = Widget("delete", id)
                                 THEN delete_chat(s1, chat)
                                 ELSE s1
                       IN  IF stop = StopAt("delete", i)
                           THEN [s |-> s1, keys |-> keys \cup {Widget("chat", id)},
                                 aborted |-> FALSE, stopped |-> TRUE]
                           ELSE sidebar_loop(s2, L, i + 1, seen \cup {id},
                                             keys \cup {Widget("chat", id), Widget("delete", id)},
                                             w, stop)

(*************************** model gateway **********************************)
\* env: what os.getenv and the client constructors give this run
Envs == [endpoint : BOOLEAN, api_key : BOOLEAN, ctor_ok : BOOLEAN]

\* TRUE when a client is returned, FALSE for None
initialize_model(mt, env) ==
    IF mt = "azure"
    THEN IF ~env.endpoint \/ ~env.api_key
         THEN FALSE
         ELSE env.ctor_ok
    ELSE IF mt = "claude"
         THEN env.ctor_ok
         ELSE FALSE

\* langchain_message with the assistant branch building a HumanMessage
langchain_message_human_for_assistant(msg) ==
    IF msg.role = "system"
    THEN <<[content |-> msg.content, type |-> "system"]>>
    ELSE IF msg.role \in {"user", "assistant"}
         THEN <<[content |-> msg.content, type |-> "human"]>>
         ELSE <<>>

\* the LangChain message one dict becomes: none for a role without a branch
langchain_message(msg) ==
    IF msg.role = "system"
    THEN <<[content |-> msg.content, type |-> "system"]>>
    ELSE IF msg.role = "user"
         THEN <<[content |-> msg.content, type |-> "human"]>>
         ELSE IF msg.role = "assistant"
              THEN <<[content |-> msg.content, type |-> "ai"]>>
              ELSE <<>>

RECURSIVE translate(_, _)
translate(messages, langchain_messages) ==
    IF messages = <<>>
    THEN langchain_messages
    ELSE translate(Tail(messages), langchain_messages \o langchain_message(Head(messages)))

InvokeOutcomes == {"ok", "raise"}

\* generate_response with the except clause raising the failure again
generate_response_uncaught(invoke, messages, rerun) ==
    LET langchain_messages == translate(messages, <<>>)
    IN  IF invoke = "ok"
        THEN [calls |-> <<langchain_messages>>, stopped |-> FALSE, raised |-> FALSE,
              text |-> Reply]
        ELSE [calls |-> <<langchain_messages>>, stopped |-> FALSE, raised |-> TRUE,
              text |-> <<>>]

\* invoke: what client.invoke does with the translated list: answers, or
\* raises.  rerun: a rerun request is pending when the except clause calls
\* st.error.  raised says whether an exception leaves generate_response, and
\* stopped whether it is the RerunException of that st.error.
generate_response(invoke, messages, rerun) ==
    LET langchain_messages == translate(messages, <<>>)
    IN  IF invoke = "ok"
        THEN [calls |-> <<langchain_messages>>, stopped |-> FALSE, raised |-> FALSE,
              text |-> Reply]
        ELSE IF rerun
             THEN [calls |-> <<langchain_messages>>, stopped |-> TRUE, raised |-> TRUE,
                   text |-> <<>>]
             ELSE [calls |-> <<langchain_messages>>, stopped |-> FALSE, raised |-> FALSE,
                   text |-> ErrPrefix \o ErrDesc]

(************************ persistence adapter ******************************)
RoleChars(r) ==
    CASE r = "system" -> <<"s", "y", "s", "t", "e", "m">>
      [] r = "user" -> <<"u", "s", "e", "r">>
      [] r = "assistant" -> <<"a", "s", "s", "i", "s", "t", "a", "n", "t">>
      [] OTHER -> <<"t", "o", "o", "l">>

RoleKey == <<"r", "o", "l", "e">>

ContentKey == <<"c", "o", "n", "t", "e", "n", "t">>

\* json.dump: a character of a string as it is written
escape_char(c) ==
    CASE c = "\"" -> <<"\\", "\"">>
      [] c = "\\" -> <<"\\", "\\">>
      [] c = "\n" -> <<"\\", "n">>
      [] OTHER -> <<c>>

RECURSIVE escape(_)
escape(cs) == IF cs = <<>> THEN <<>> ELSE escape_char(Head(cs)) \o escape(Tail(cs))

dump_str(cs) == <<"\"">> \o escape(cs) \o <<"\"">>

Spaces(n) == [i \in 1..n |-> " "]

\* one dict of the list at indent level 1 of json.dump(..., indent=2)
dump_message(m) ==
    Spaces(2) \o <<"{", "\n">>
    \o Spaces(4) \o dump_str(RoleKey) \o <<":", " ">> \o dump_str(RoleChars(m.role)) \o <<",", "\n">>
    \o Spaces(4) \o dump_str(ContentKey) \o <<":", " ">> \o dump_str(m.content) \o <<"\n">>
    \o Spaces(2) \o <<"}">>

RECURSIVE dump_items(_)
dump_items(ms) ==
    IF Len(ms) = 1
    THEN dump_message(ms[1])
    ELSE dump_message(Head(ms)) \o <<",", "\n">> \o dump_items(Tail(ms))

json_dump(chat_history) ==
    IF chat_history = <<>>
    THEN <<"[", "]">>
    ELSE <<"[", "\n">> \o dump_items(chat_history) \o <<"\n", "]">>

SaveOutcomes == {"ok", "open_error", "write_error"}

\* save_chat_history opening the file with mode 'a'
save_chat_history_appending(chat_history, f, outcome, cut, rerun) ==
    LET text == json_dump(chat_history)
    IN  [file |-> IF outcome = "ok"
                  THEN [exists |-> TRUE, data |-> f.data \o text]
                  ELSE IF outcome = "open_error"
                       THEN f
                       ELSE [exists |-> TRUE, data |-> f.data \o SubSeq(text, 1, cut)],
         stopped |-> rerun]

\* open(filename, 'w') empties the file; json.dump then writes it piece by
\* piece.  cut is how much was written when a write fails.  Every path ends
\* in a st.* call, st.success after the file is closed or st.error in the
\* except clause: with a rerun request pending (rerun) the RerunException of
\* that call leaves the function (stopped).
save_chat_history(chat_history, f, outcome, cut, rerun) ==
    LET text == json_dump(chat_history)
    IN  [file |-> IF outcome = "ok"
                  THEN [exists |-> TRUE, data |-> text]
                  ELSE IF outcome = "open_error"
                       THEN f
                       ELSE [exists |-> TRUE, data |-> SubSeq(text, 1, cut)],
         stopped |-> rerun]

Whitespace == {" ", "\n"}

ParseFail == [ok |-> FALSE, val |-> <<>>, pos |-> 0]

ParseOk(val, pos) == [ok |-> TRUE, val |-> val, pos |-> pos]

RECURSIVE skip_ws(_, _)
skip_ws(s, i) == IF i <= Len(s) /\ s[i] \in Whitespace THEN skip_ws(s, i + 1) ELSE i

\* the character an escape \c stands for
unescape_char(c) ==
    CASE c = "\"" -> <<"\"">>
      [] c = "\\" -> <<"\\">>
      [] c = "n" -> <<"\n">>
      [] OTHER -> <<>>

\* json's string scanner, i after the opening quote
RECURSIVE scan_string(_, _, _)
scan_string(s, i, acc) ==
    IF i > Len(s)
    THEN ParseFail
    ELSE IF s[i] = "\""
         THEN ParseOk(acc, i + 1)
         ELSE IF s[i] = "\\"
              THEN IF i + 1 > Len(s) \/ unescape_char(s[i + 1]) = <<>>
                   THEN ParseFail
                   ELSE scan_string(s, i + 2, acc \o unescape_char(s[i + 1]))
              ELSE IF s[i] = "\n"
                   THEN ParseFail
                   ELSE scan_string(s, i + 1, Append(acc, s[i]))

\* json's value scanner at position i: strings, arrays and objects
RECURSIVE parse_value(_, _), parse_array(_, _, _), parse_object(_, _, _)
parse_value(s, i) ==
    IF i > Len(s)
    THEN ParseFail
    ELSE IF s[i] = "\""
         THEN LET r == scan_string(s, i + 1, <<>>)
              IN  IF r.ok THEN ParseOk([t |-> "str", v |-> r.val], r.pos) ELSE ParseFail
         ELSE IF s[i] = "["
              THEN LET j == skip_ws(s, i + 1)
                   IN  IF j <= Len(s) /\ s[j] = "]"
                       THEN ParseOk([t |-> "list", v |-> <<>>], j + 1)
                       ELSE parse_array(s, j, <<>>)
              ELSE IF s[i] = "{"
                   THEN LET j == skip_ws(s, i + 1)
                        IN  IF j <= Len(s) /\ s[j] = "}"
                            THEN ParseOk([t |-> "dict", v |-> <<>>], j + 1)
                            ELSE parse_object(s, j, <<>>)
                   ELSE ParseFail

parse_array(s, i, acc) ==
    LET r == parse_value(s, i)
    IN  IF ~r.ok
        THEN ParseFail
        ELSE LET j == skip_ws(s, r.pos)
             IN  IF j > Len(s)
                 THEN ParseFail
                 ELSE IF s[j] = ","
                      THEN parse_array(s, skip_ws(s, j + 1), Append(acc, r.val))
                      ELSE IF s[j] = "]"
                           THEN ParseOk([t |-> "list", v |-> Append(acc, r.val)], j + 1)
                           ELSE ParseFail

parse_object(s, i, acc) ==
    IF i > Len(s) \/ s[i] # "\""
    THEN ParseFail
    ELSE LET k == scan_string(s, i + 1, <<>>)
         IN  IF ~k.ok
             THEN ParseFail
             ELSE LET c == skip_ws(s, k.pos)
                  IN  IF c > Len(s) \/ s[c] # ":"
                      THEN ParseFail
                      ELSE LET r == parse_value(s, skip_ws(s, c + 1))
                           IN  IF ~r.ok
                               THEN ParseFail
                               ELSE LET j == skip_ws(s, r.pos)
                                        pairs == Append(acc, <<k.val, r.val>>)
                                    IN  IF j > Len(s)
                                        THEN ParseFail
                                        ELSE IF s[j] = ","
                                             THEN parse_object(s, skip_ws(s, j + 1), pairs)
                                             ELSE IF s[j] = "}"
                                                  THEN ParseOk([t |-> "dict", v |-> pairs], j + 1)
                                                  ELSE ParseFail

\* the role a role string read from the file names
RoleNamed(cs) ==
    IF \E r \in Roles : RoleChars(r) = cs
    THEN CHOOSE r \in Roles : RoleChars(r) = cs
    ELSE OtherRole

\* The Python value of a parsed document.  A dict becomes a message when its
\* keys are role and content with string values (a later pair of a repeated
\* key replaces the earlier one), and any other dict its list of pairs.
RECURSIVE python_value(_)
python_value(x) ==
    IF x.t = "str"
    THEN x.v
    ELSE IF x.t = "list"
         THEN [i \in 1..Len(x.v) |-> python_value(x.v[i])]
         ELSE LET pairs == x.v
                  keys == {pairs[i][1] : i \in 1..Len(pairs)}
                  last(k) == pairs[CHOOSE i \in 1..Len(pairs) :
                                       /\ pairs[i][1] = k
                                       /\ \A j \in (i + 1)..Len(pairs) : pairs[j][1] # k][2]
              IN  IF keys = {RoleKey, ContentKey} /\ last(RoleKey).t = "str" /\ last(ContentKey).t = "str"
                  THEN Message(RoleNamed(last(RoleKey).v), last(ContentKey).v)
                  ELSE [pairs |-> [i \in 1..Len(pairs) |-> <<pairs[i][1], python_value(pairs[i][2])>>]]

\* json.load: the whole text is one value between whitespace
json_load(data) ==
    LET r == parse_value(data, skip_ws(data, 1))
    IN  IF r.ok /\ skip_ws(data, r.pos) = Len(data) + 1
        THEN [ok |-> TRUE, val |-> python_value(r.val)]
        ELSE [ok |-> FALSE, val |-> <<>>]

\* A file that is not there gives [] with no st.* call; a malformed one has
\* the except clause call st.error, where a pending rerun request (rerun)
\* leaves the function by the RerunException (stopped), and [] is returned
\* otherwise.
load_chat_history(f, rerun) ==
    IF f.exists
    THEN LET r == json_load(f.data)
         IN  IF r.ok
             THEN [value |-> r.val, stopped |-> FALSE]
             ELSE [value |-> <<>>, stopped |-> rerun]
    ELSE [value |-> <<>>, stopped |-> FALSE]

(******************************* main ***************************************)
Store == [chats |-> chats, heap |-> heap, current_chat |-> current_chat]

OtherModel(mt) == IF mt = "azure" THEN "claude" ELSE "azure"

append_message(s, chat, role, content) ==
    [s EXCEPT !.heap[chat].messages = Append(@, Message(role, content))]

\* how much of the text a failed write may have put in the file (sampled)
WriteCuts(text) == {0, Len(text) \div 2}

\* main from "Main chat interface" on: reached with a client.  error says an
\* exception of the program ended the run in here, stopped that a rerun
\* request did.  keys are the widgets this run rendered in here, and text
\* what generate_response returned.
chat_panel(s, f, w, prompt, invoke, stop, save_outcome, cut) ==
    LET s1 == IF s.chats = <<>> THEN create_new_chat(s) ELSE s
        cur == s1.current_chat
        turn == w = Widget("input", 0)
        s2 == append_message(s1, cur, "user", prompt)
        g == generate_response(invoke, s2.heap[cur].messages, stop = StopAt("failed", 0))
        s3 == IF turn THEN append_message(s2, cur, "assistant", g.text) ELSE s1
        saved == save_chat_history(s3.heap[cur].messages, f, save_outcome, cut,
                                   stop = StopAt("saved", 0))
    IN  IF cur = NoneRef
        THEN [file |-> f, calls |-> <<>>, s |-> s1, keys |-> {}, stopped |-> FALSE,
              text |-> <<>>, error |-> TRUE]
        ELSE IF stop = StopAt("header", 0)
             THEN [file |-> f, calls |-> <<>>, s |-> s1, keys |-> {}, stopped |-> TRUE,
                   text |-> <<>>, error |-> FALSE]
             ELSE IF turn /\ stop = StopAt("user", 0)
                  THEN [file |-> f, calls |-> <<>>, s |-> s2, keys |-> {Widget("input", 0)},
                        stopped |-> TRUE, text |-> <<>>, error |-> FALSE]
                  ELSE IF turn /\ g.raised
                       THEN [file |-> f, calls |-> g.calls, s |-> s2,
                             keys |-> {Widget("input", 0)}, stopped |-> g.stopped,
                             text |-> g.text, error |-> ~g.stopped]
                       ELSE IF turn /\ stop = StopAt("reply", 0)
                            THEN [file |-> f, calls |-> g.calls, s |-> s2,
                                  keys |-> {Widget("input", 0)}, stopped |-> TRUE,
                                  text |-> g.text, error |-> FALSE]
                            ELSE IF stop = StopAt("info", 0)
                                 THEN [file |-> f,
                                       calls |-> IF turn THEN g.calls ELSE <<>>,
                                       s |-> s3,
                                       keys |-> {Widget("input", 0)},
                                       stopped |-> TRUE,
                                       text |-> IF turn THEN g.text ELSE <<>>,
                                       error |-> FALSE]
                                 ELSE [file |-> IF w = Widget("save", 0) THEN saved.file ELSE f,
                                       calls |-> IF turn THEN g.calls ELSE <<>>,
                                       s |-> s3,
                                       keys |-> {Widget("input", 0), Widget("save", 0)},
                                       stopped |-> w = Widget("save", 0) /\ saved.stopped,
                                       text |-> IF turn THEN g.text ELSE <<>>,
                                       error |-> FALSE]

\* What the last operation was: the widget event a run acted on (op, id: none
\* when the run did not reach the widget, the press being lost), whether it
\* reached it (fired), the chat its button belongs to (target, as named before
\* the run), whether an exception of the program ended it (aborted), the
\* outcome of client.invoke or of the write when there was one, the argument
\* of a direct call of a utils function, the number of chats before a delete,
\* for each chat of the list after the run its name before the run (NoneRef
\* when the run created it), whether the target was current_chat, whether a
\* rerun request ended the operation (stopped), and whether one was pending
\* at the st.* call of the utils function the operation called (rerun).
Event(op, id, fired, target, aborted, outcome, arg, preLen, origin, wasActive, stopped, rerun) ==
    [id |-> id, aborted |-> aborted, stopped |-> stopped, rerun |-> rerun,
     outcome |-> outcome, op |-> op, fired |-> fired, target |-> target, arg |-> arg,
     preLen |-> preLen, origin |-> origin, wasActive |-> wasActive]

\* The result of a run: the session state it leaves (s, model_type), the file,
\* the arguments of client.invoke, what generate_response returned, how the
\* run ended, the widgets it rendered (keys) and the chat of the pressed
\* button.
Result(s, mt, f, invoked, text, aborted, stopped, keys, target) ==
    [model_type |-> mt, file |-> f, calls |-> invoked, s |-> s, keys |-> keys,
     aborted |-> aborted, stopped |-> stopped, text |-> text, target |-> target]

\* One run of the script started by the event of widget w, with the rerun
\* request that arrives during it, if any, taking effect at stop; client is
\* what initialize_model returns in it.
run(w, client, prompt, invoke, stop, save_outcome, cut) ==
    LET mt == radio'
        s1 == IF w = Widget("new", 0) THEN create_new_chat(Store) ELSE Store
        lp == sidebar_loop(s1, s1.chats, 1, {}, {Widget("radio", 0), Widget("new", 0)}, w, stop)
        hit == {i \in 1..Len(s1.chats) : s1.heap[s1.chats[i]].id = w.id}
        target == IF w.kind \in {"chat", "delete"} /\ w \in lp.keys
                  THEN s1.chats[CHOOSE i \in hit : \A j \in hit : i <= j]
                  ELSE NoneRef
    IN  IF stop = StopAt("radio", 0)
        THEN Result(Store, model_type, file, <<>>, <<>>, FALSE, TRUE, {}, NoneRef)
        ELSE IF stop = StopAt("new", 0)
             THEN Result(Store, mt, file, <<>>, <<>>, FALSE, TRUE, {Widget("radio", 0)},
                         NoneRef)
             ELSE IF lp.aborted \/ lp.stopped
                  THEN Result(lp.s, mt, file, <<>>, <<>>, lp.aborted, lp.stopped, lp.keys,
                              target)
                  ELSE IF stop = StopAt("slider", 0)
                       THEN Result(lp.s, mt, file, <<>>, <<>>, FALSE, TRUE, lp.keys, target)
                       ELSE IF ~client
                            THEN Result(lp.s, mt, file, <<>>, <<>>, FALSE,
                                        stop = StopAt("error", 0), lp.keys, target)
                            ELSE LET body == chat_panel(lp.s, file, w, prompt, invoke, stop,
                                                        save_outcome, cut)
                                 IN  Result(body.s, mt, body.file, body.calls, body.text,
                                            body.error, body.stopped,
                                            lp.keys \cup body.keys, target)

\* Between runs the references are renamed so that the i-th chat of the list
\* is object i, and a current_chat outside the list the object after them: an
\* address means nothing beyond which dict it is.  place gives the new name of
\* a reference of the run.
place(s, o) ==
    IF o = NoneRef
    THEN NoneRef
    ELSE IF o \in Range(s.chats)
         THEN CHOOSE i \in 1..Len(s.chats) : s.chats[i] = o
         ELSE Len(s.chats) + 1

\* A run of the script.  A rerun request is made on a widget of the page, so
\* a run is stopped only with a widget on the page; a stopped run leaves on
\* the page what the run before had put there.
main(w, client, prompt, invoke, stop, save_outcome, cut) ==
    /\ radio' = IF w.kind = "radio" THEN OtherModel(radio) ELSE radio
    /\ \E r \in {run(w, client, prompt, invoke, stop, save_outcome, cut)} :
        LET live == Range(r.s.chats) \cup ({r.s.current_chat} \ {NoneRef})
            page == IF r.stopped THEN r.keys \cup rendered ELSE r.keys
        IN  /\ r.stopped => page # {}
            /\ stop # NoStop => r.stopped
            /\ chats' = [i \in 1..Len(r.s.chats) |-> i]
            /\ heap' = [i \in {place(r.s, o) : o \in live} |->
                            r.s.heap[CHOOSE o \in live : place(r.s, o) = i]]
            /\ current_chat' = place(r.s, r.s.current_chat)
            /\ model_type' = r.model_type
            /\ file' = r.file
            /\ rendered' = page
            /\ issued' = issued \cup {r.s.heap[o].id : o \in DOMAIN r.s.heap \ DOMAIN heap}
            /\ calls' = r.calls
            /\ ret' = [value |-> r.text]
            /\ ev' = LET e == IF w \in r.keys THEN w ELSE NoWidget
                      IN  Event(e.kind, e.id, w \in r.keys, r.target, r.aborted,
                                IF e.kind = "input" /\ r.calls # <<>> THEN invoke
                                ELSE IF e.kind = "save" THEN save_outcome ELSE "",
                                <<>>,
                                IF e.kind = "delete" THEN Len(chats) ELSE 0,
                                [i \in 1..Len(r.s.chats) |->
                                     IF r.s.chats[i] \in DOMAIN heap THEN r.s.chats[i]
                                     ELSE NoneRef],
                                r.target # NoneRef /\ r.target = current_chat,
                                r.stopped,
                                stop \in {StopAt("failed", 0), StopAt("saved", 0)})

\* what initialize_model can return for a model type, over every environment
Clients(mt) == {initialize_model(mt, env) : env \in Envs}

NoPrompt == <<>>

\* the prompts sent so far to the chats that are alive: their user messages
Turns ==
    Cardinality(UNION {{<<o, i>> : i \in {k \in 1..Len(heap[o].messages) :
                                              heap[o].messages[k].role = "user"}} :
                       o \in DOMAIN heap})

Init ==
    /\ chats = <<>>
    /\ heap = <<>>
    /\ current_chat = NoneRef
    /\ model_type = "azure"
    /\ radio = "azure"
    /\ file = NoFile
    /\ rendered = {}
    /\ issued = {}
    /\ calls = <<>>
    /\ ret = NoReturn
    /\ ev = Event("init", 0, FALSE, NoneRef, FALSE, "", <<>>, 0, <<>>, FALSE, FALSE, FALSE)

\* The ways a run can go: the stop point of the rerun request, if one arrives,
\* what initialize_model returns when the run gets to call it, and what
\* client.invoke does when the run gets to call it.  mt is the model type of
\* the run.
Plans(mt, stops, invokes) ==
    {plan \in stops \X BOOLEAN \X invokes :
        LET point == plan[1][1]
            client == plan[2]
            invoke == plan[3]
        IN  CASE point \in {"radio", "new", "chat", "delete", "slider"} ->
                     ~client /\ invoke = "ok"
              [] point = "error" -> ~client /\ client \in Clients(mt) /\ invoke = "ok"
              [] point \in {"header", "user"} -> client /\ client \in Clients(mt) /\ invoke = "ok"
              [] point = "failed" -> client /\ client \in Clients(mt) /\ invoke = "raise"
              [] point \in {"reply", "info"} -> client /\ client \in Clients(mt)
              [] point = "saved" -> client /\ client \in Clients(mt) /\ invoke = "ok"
              [] OTHER -> client \in Clients(mt) /\ (~client => invoke = "ok")}

\* the first load of the page, or an event of a widget that changes nothing here
Rerun ==
    \E plan \in Plans(radio, Stops(Len(chats)), {"ok"}) :
        main(NoWidget, plan[2], NoPrompt, plan[3], plan[1], "ok", 0)

SelectModel ==
    /\ Widget("radio", 0) \in rendered
    /\ \E plan \in Plans(OtherModel(radio), Stops(Len(chats)), {"ok"}) :
           main(Widget("radio", 0), plan[2], NoPrompt, plan[3], plan[1], "ok", 0)

NewChat ==
    /\ Widget("new", 0) \in rendered
    /\ Len(chats) < MaxChats
    /\ \E plan \in Plans(radio, Stops(Len(chats) + 1), {"ok"}) :
           main(Widget("new", 0), plan[2], NoPrompt, plan[3], plan[1], "ok", 0)

SelectChat ==
    \E w \in rendered, plan \in Plans(radio, Stops(Len(chats)), {"ok"}) :
        /\ w.kind = "chat"
        /\ main(w, plan[2], NoPrompt, plan[3], plan[1], "ok", 0)

DeleteChat ==
    \E w \in rendered, plan \in Plans(radio, Stops(Len(chats)), {"ok"}) :
        /\ w.kind = "delete"
        /\ main(w, plan[2], NoPrompt, plan[3], plan[1], "ok", 0)

\* A turn: besides the stop points of every run, it has those around
\* generate_response.
SendPrompt ==
    /\ Widget("input", 0) \in rendered
    /\ Turns < MaxTurns
    /\ \E plan \in Plans(radio, Stops(Len(chats)) \cup TurnStops, InvokeOutcomes),
          prompt \in Prompts :
           main(Widget("input", 0), plan[2], prompt, plan[3], plan[1], "ok", 0)

SaveHistory ==
    /\ Widget("save", 0) \in rendered
    /\ current_chat \in DOMAIN heap
    /\ \E plan \in Plans(radio, Stops(Len(chats)) \cup SaveStops, {"ok"}),
          save_outcome \in SaveOutcomes :
           \E cut \in WriteCuts(json_dump(heap[current_chat].messages)) :
               main(Widget("save", 0), plan[2], NoPrompt, plan[3], plan[1], save_outcome, cut)

\* The runs of the page with a user who does not press "Save Chat History":
\* every run is either complete or stopped by a rerun request at one of its
\* st.* calls.
Next ==
    \/ Rerun
    \/ SelectModel
    \/ NewChat
    \/ SelectChat
    \/ DeleteChat
    \/ SendPrompt

Spec == Init /\ [][Next]_vars

\* Every run of the page.
NextApp ==
    \/ Next
    \/ SaveHistory

SpecApp == Init /\ [][NextApp]_vars

(********************* utils functions called directly *********************)
SeqsUpTo(S, n) == UNION {[1..k -> S] : k \in 0..n}

\* conversations handed to generate_response: every role with a branch, and one without
GatewayMessages == {Message(r, c) : r \in Roles \cup {OtherRole}, c \in {<<"a">>, <<"b">>}}

Conversations == SeqsUpTo(GatewayMessages, MaxLen)

\* A call of generate_response, with or without a rerun request pending at
\* the st.error of its except clause.  The exception of client.invoke is
\* caught: a call the RerunException leaves is stopped, not aborted, as in a
\* turn of main.
GenerateCall ==
    \E messages \in Conversations, invoke \in InvokeOutcomes, rerun \in BOOLEAN :
        \E g \in {generate_response(invoke, messages, rerun)} :
            /\ calls' = g.calls
            /\ ret' = [value |-> g.text]
            /\ ev' = Event("generate", 0, TRUE, NoneRef, g.raised /\ ~g.stopped, invoke,
                           messages, 0, <<>>, FALSE, g.stopped, rerun)
            /\ UNCHANGED <<chats, heap, current_chat, model_type, radio, file, rendered, issued>>

SpecGateway == Init /\ [][GenerateCall]_vars

\* message lists handed to save_chat_history: text with the characters JSON escapes
PersistMessages ==
    {Message("user", <<"\"", "\\", "n">>),
     Message("assistant", <<"\n", "a", "\\">>),
     Message("user", <<>>)}

PersistLists == SeqsUpTo(PersistMessages, MaxLen)

\* A call of save_chat_history, with or without a rerun request pending at
\* its st.success or st.error: the call then ends by the RerunException, the
\* file being as the write left it.
SaveCall ==
    \E chat_history \in PersistLists, save_outcome \in SaveOutcomes, rerun \in BOOLEAN :
        \E cut \in WriteCuts(json_dump(chat_history)) :
            \E saved \in {save_chat_history(chat_history, file, save_outcome, cut, rerun)} :
                /\ file' = saved.file
                /\ ret' = NoReturn
                /\ ev' = Event("save", 0, TRUE, NoneRef, FALSE, save_outcome, chat_history,
                               0, <<>>, FALSE, saved.stopped, rerun)
                /\ UNCHANGED <<chats, heap, current_chat, model_type, radio, rendered,
                               issued, calls>>

\* A call of load_chat_history, with or without a rerun request pending at
\* the st.error of its except clause: a call the RerunException ends returns
\* nothing.
LoadCall ==
    \E rerun \in BOOLEAN :
        \E loaded \in {load_chat_history(file, rerun)} :
            /\ ret' = IF loaded.stopped THEN NoReturn ELSE [value |-> loaded.value]
            /\ ev' = Event("load", 0, TRUE, NoneRef, FALSE, "", <<>>, 0, <<>>, FALSE,
                           loaded.stopped, rerun)
            /\ UNCHANGED <<chats, heap, current_chat, model_type, radio, file, rendered,
                           issued, calls>>

NextPersist ==
    \/ SaveCall
    \/ LoadCall

SpecPersist == Init /\ [][NextPersist]_vars

(******************************* claims ************************************)
\* delete_chat was called in the last run
Deleted(e) == e.op = "delete" /\ e.fired

IsPrefix(a, b) == Len(a) <= Len(b) /\ SubSeq(b, 1, Len(a)) = a

IdAt(i) == heap[chats[i]].id

\* C1 (as claimed): no two chats of the store have the same id, and a chat a
\* run creates gets an id no earlier chat was created with.
C1_IdsUniqueAndFresh ==
    [][/\ \A i, j \in 1..Len(chats') :
              i # j => heap'[chats'[i]].id # heap'[chats'[j]].id
       /\ \A i \in 1..Len(chats') :
              ev'.origin[i] = NoneRef => heap'[chats'[i]].id \notin issued]_vars

\* C2: whenever the store holds a chat, current_chat is one of the chats of the store.
C2_SelectionInStore == Len(chats) > 0 => current_chat \in Range(chats)

\* C2 witness: the selected chat was deleted and a chat from before the run is left.
C2_Witness ==
    /\ Deleted(ev)
    /\ ev.wasActive
    /\ ev.preLen >= 2
    /\ Len(chats) >= 1
    /\ ev.origin[Len(chats)] # NoneRef
    /\ current_chat \in Range(chats)

\* C3 (as claimed): after every run of the script, with or without a client,
\* the store holds at least one chat.
C3_StoreNeverEmpty == ev.op # "init" => Len(chats) >= 1

\* C4: delete_chat on a store of exactly one chat leaves exactly one chat,
\* created in that run, with an empty message log, and selected.
C4_DeleteLastLeavesFresh ==
    [][(Deleted(ev') /\ Len(chats) = 1)
       => /\ Len(chats') = 1
          /\ ev'.origin[1] = NoneRef
          /\ heap'[chats'[1]].messages = <<>>
          /\ current_chat' = chats'[1]]_vars

\* C4 witness: the only chat was deleted, and one chat is in the store.
C4_Witness ==
    /\ Deleted(ev)
    /\ ev.preLen = 1
    /\ Len(chats) = 1
    /\ ev.origin = <<NoneRef>>
    /\ current_chat = chats[1]

\* C5 (as claimed): delete_chat on a store of more than one chat removes the
\* chat of the pressed button and nothing else: the other chats stay, in their
\* order, with id, name and messages unchanged, and the store is one shorter.
C5_DeleteRemovesOnlyTarget ==
    [][(Deleted(ev') /\ Len(chats) > 1)
       => /\ Len(chats') = Len(chats) - 1
          /\ ev'.origin = [i \in 1..(Len(chats) - 1) |->
                               IF i < ev'.target THEN chats[i] ELSE chats[i + 1]]
          /\ \A i \in 1..Len(chats') : heap'[chats'[i]] = heap[ev'.origin[i]]]_vars

\* C6: when the deleted chat was the selected one and chats from before remain,
\* the selection is the last chat of the store; and deleting the chat with id 1
\* from a store of the chats with ids 1 and 2 leaves the chat with id 2 alone
\* in the store and selected.
C6_SelectionMovesToLast ==
    [][/\ (Deleted(ev') /\ ev'.wasActive /\ \E i \in 1..Len(chats') : ev'.origin[i] # NoneRef)
          => current_chat' = chats'[Len(chats')]
       /\ (Deleted(ev') /\ Len(chats) = 2 /\ IdAt(1) = 1 /\ IdAt(2) = 2 /\ ev'.target = chats[1])
          => /\ Len(chats') = 1
             /\ ev'.origin = <<chats[2]>>
             /\ current_chat' = chats'[1]]_vars

\* C6 witness: the scenario, with the chat with id 1 selected when it was deleted.
C6_Witness ==
    /\ Deleted(ev)
    /\ ev.wasActive
    /\ ev.preLen = 2
    /\ ev.id = 1
    /\ Len(chats) = 1
    /\ ev.origin = <<2>>
    /\ IdAt(1) = 2
    /\ current_chat = chats[1]

\* the role a LangChain message type stands for
RoleOfType(type) ==
    CASE type = "system" -> "system"
      [] type = "human" -> "user"
      [] type = "ai" -> "assistant"
      [] OTHER -> "none"

\* C7: for a non-empty conversation of messages with the roles system, user and
\* assistant, generate_response calls client.invoke once, with one LangChain
\* message per message, in the order of the conversation, each with the role
\* and the content of its message.
C7_TranslationPreservesConversation ==
    (/\ ev.op = "generate"
     /\ ev.arg # <<>>
     /\ \A i \in 1..Len(ev.arg) : ev.arg[i].role \in Roles)
    => /\ Len(calls) = 1
       /\ Len(calls[1]) = Len(ev.arg)
       /\ \A i \in 1..Len(ev.arg) :
              /\ RoleOfType(calls[1][i].type) = ev.arg[i].role
              /\ calls[1][i].content = ev.arg[i].content

\* C7 witness: a conversation of two messages with different roles and
\* contents was translated and handed over.
C7_Witness ==
    /\ ev.op = "generate"
    /\ Len(ev.arg) = 2
    /\ ev.arg[1].role = "system"
    /\ ev.arg[2].role = "assistant"
    /\ ev.arg[1].content # ev.arg[2].content
    /\ Len(calls) = 1
    /\ Len(calls[1]) = 2

C9_SaveLoadRoundTrip ==
    [][(ev.op = "save" /\ ev.outcome = "ok" /\ ev'.op = "load")
       => /\ ret'.value = ev.arg
          /\ ~ev'.stopped]_vars

\* C9 witness: a load returned two different messages, one of them with a
\* quote, a backslash and the letter n.
C9_Witness ==
    /\ ev.op = "load"
    /\ ~ev.stopped
    /\ Len(ret.value) = 2
    /\ ret.value[1] = Message("user", <<"\"", "\\", "n">>)
    /\ ret.value[2] # ret.value[1]

\* C10 (as claimed): delete_chat on a chat that is not the selected one, the
\* selected one staying in the store, leaves the selection where it was.
C10_DeleteOtherKeepsSelection ==
    [][(/\ Deleted(ev')
        /\ ~ev'.wasActive
        /\ \E i \in 1..Len(chats') : ev'.origin[i] = current_chat)
       => \E i \in 1..Len(chats') :
              /\ chats'[i] = current_chat'
              /\ ev'.origin[i] = current_chat]_vars

====
